---- MODULE Spec2Model ----
(***************************************************************************)
(* The forward model of elliptic_cylinder.py: the magnetic field of a      *)
(* uniformly magnetized elliptic cylinder.  elliptic is a pipeline of pure *)
(* functions; the state machine below walks one call of elliptic through   *)
(* its stages, from the arguments to the returned (Bx, Bz, Tf) triple or   *)
(* to the exception that ends the call.                                    *)
(*                                                                         *)
(* Numbers.  numpy's float64 values are modelled by exact rationals        *)
(* [n |-> numerator, d |-> denominator] in lowest terms with d > 0,        *)
(* extended by the IEEE special values the code can produce: d = 0 with    *)
(* n = 1 or n = -1 is +Inf or -Inf, and d = 0 with n = 0 is NaN.  numpy    *)
(* scalar and array arithmetic does not raise on a division by zero or an  *)
(* invalid operation (it warns and yields Inf or NaN), and the operators   *)
(* below follow the IEEE rules for them.  Rounding and the sign of zero    *)
(* are not modelled: every finite result is the exact one.                 *)
(*                                                                         *)
(* Angles.  An angle is modelled by the tangent of its half (a rational),  *)
(* with the unit it is measured in; cos and sin are computed from the      *)
(* half-angle tangent t as (1 - t^2)/(1 + t^2) and 2t/(1 + t^2).           *)
(***************************************************************************)
EXTENDS Integers, Sequences, FiniteSets, TLC

(* ------------------------------------------------------------------ *)
(* Bounds of the model                                                  *)
(* ------------------------------------------------------------------ *)

\* axis lengths b, c range over 1..MaxAxis with b + c <= MaxAxis + 1
MaxAxis == 2
\* tilt angles have half-angle tangents q/TiltDen, q in 0..TiltDen (0 to 90 degrees)
TiltDen == 2
\* body-frame lattice of observation points: coordinates i/GridDen
GridDen == 4
\* ... with 0 <= i <= MaxGrid
MaxGrid == 13
\* ambient field intensities 1..MaxIntT
MaxIntT == 2

(* ------------------------------------------------------------------ *)
(* Extended rational arithmetic (numpy float64, exact)                  *)
(* ------------------------------------------------------------------ *)

Abs(i) == IF i < 0 THEN -i ELSE i

Sign(i) == IF i < 0 THEN -1 ELSE IF i > 0 THEN 1 ELSE 0

RECURSIVE GCD(_, _)
GCD(a, b) == IF b = 0 THEN a ELSE GCD(b, a % b)

\* the value n/d in lowest terms; n/0 is an infinity or NaN
Val(n, d) ==
    IF d = 0 THEN [n |-> Sign(n), d |-> 0]
    ELSE LET g == GCD(Abs(n), Abs(d))
         IN  [n |-> (Sign(d) * n) \div g, d |-> Abs(d) \div g]

Zero == [n |-> 0, d |-> 1]
One  == [n |-> 1, d |-> 1]
NaN  == [n |-> 0, d |-> 0]
PInf == [n |-> 1, d |-> 0]
NInf == [n |-> -1, d |-> 0]

Int2V(i) == [n |-> i, d |-> 1]

IsNaN(x) == x.d = 0 /\ x.n = 0
IsInf(x) == x.d = 0 /\ x.n # 0
IsFinite(x) == x.d > 0

Neg(x) == [n |-> -x.n, d |-> x.d]

Add(x, y) ==
    IF IsNaN(x) \/ IsNaN(y) THEN NaN
    ELSE IF IsInf(x) THEN (IF IsInf(y) /\ y.n # x.n THEN NaN ELSE x)
    ELSE IF IsInf(y) THEN y
    ELSE LET g == GCD(x.d, y.d)
         IN  Val(x.n * (y.d \div g) + y.n * (x.d \div g), (x.d \div g) * y.d)

Sub(x, y) == Add(x, Neg(y))

Mul(x, y) ==
    IF x.d = 0 \/ y.d = 0 THEN Val(x.n * y.n, 0)
    ELSE LET g == GCD(Abs(x.n), y.d)
             h == GCD(Abs(y.n), x.d)
         IN  Val((x.n \div g) * (y.n \div h), (x.d \div h) * (y.d \div g))

\* 1/0 = Inf, 1/Inf = 0, 1/NaN = NaN
Recip(y) ==
    IF IsNaN(y) THEN NaN
    ELSE IF y.n = 0 THEN PInf
    ELSE [n |-> Sign(y.n) * y.d, d |-> Abs(y.n)]

Div(x, y) == Mul(x, Recip(y))

Sq(x) == Mul(x, x)

Less(x, y) == ~IsNaN(x) /\ ~IsNaN(y) /\ x # y /\
    (IF IsInf(x) THEN x.n < 0
     ELSE IF IsInf(y) THEN y.n > 0
     ELSE x.n * y.d < y.n * x.d)

Leq(x, y) == ~IsNaN(x) /\ ~IsNaN(y) /\ (x = y \/ Less(x, y))

\* the integer square root of n >= 0, by bisection on lo..hi
RECURSIVE ISqrtIn(_, _, _)
ISqrtIn(n, lo, hi) ==
    IF lo >= hi THEN lo
    ELSE LET mid == (lo + hi + 1) \div 2
         IN  IF mid * mid <= n THEN ISqrtIn(n, mid, hi) ELSE ISqrtIn(n, lo, mid - 1)

ISqrt(n) == ISqrtIn(n, 0, IF n < 46340 THEN n ELSE 46340)

IsSquare(n) == n >= 0 /\ ISqrt(n) * ISqrt(n) = n

\* x has a square root the model can represent exactly
RootExact(x) == ~IsFinite(x) \/ x.n < 0 \/ (IsSquare(x.n) /\ IsSquare(x.d))

\* x ** 0.5: NaN for a negative or NaN argument, Inf for Inf.  The model
\* admits only arguments whose root is rational (see ExactPoint); elsewhere
\* the value is not representable and is given as NaN.
Sqrt(x) ==
    IF IsNaN(x) \/ x.n < 0 THEN NaN
    ELSE IF IsInf(x) THEN PInf
    ELSE LET rn == ISqrt(x.n)
             rd == ISqrt(x.d)
         IN  IF rn * rn = x.n /\ rd * rd = x.d THEN [n |-> rn, d |-> rd] ELSE NaN

\* np.pi, as a rational
PiNum == 22
PiDen == 7
Pi == Val(PiNum, PiDen)

(* ------------------------------------------------------------------ *)
(* Angles, vectors and 3x3 matrices                                     *)
(* ------------------------------------------------------------------ *)

\* an angle of unit u ("deg" or "rad") whose half has tangent t
Angle(u, t) == [unit |-> u, ht |-> t]

\* np.deg2rad: the same direction, measured in radians
deg2rad(a) == Angle("rad", a.ht)

\* np.cos and np.sin of an angle in radians
Cos(a) == Div(Sub(One, Sq(a.ht)), Add(One, Sq(a.ht)))

Sin(a) == Div(Mul(Int2V(2), a.ht), Add(One, Sq(a.ht)))

\* entry [i, j] of a matrix, rows and columns counted from 0 as in the source
At(m, i, j) == m[i + 1][j + 1]

\* entry [i] of a vector, counted from 0
El(v, i) == v[i + 1]

\* the vector, and the matrix, with the entries f[1], f[2], f[3]
Vec3(f) == << f[1], f[2], f[3] >>

Mat3(f) == << Vec3(f[1]), Vec3(f[2]), Vec3(f[3]) >>

Transpose(m) == Mat3([i \in 1..3 |-> [j \in 1..3 |-> m[j][i]]])

Identity == Mat3([i \in 1..3 |-> [j \in 1..3 |-> IF i = j THEN One ELSE Zero]])

Dot3(u, v) == Add(Add(Mul(u[1], v[1]), Mul(u[2], v[2])), Mul(u[3], v[3]))

\* matrix . matrix and matrix . vector (ndarray.dot)
MatMul(a, b) == Mat3([i \in 1..3 |-> [j \in 1..3 |-> Dot3(a[i], Transpose(b)[j])]])

MatVec(a, v) == Vec3([i \in 1..3 |-> Dot3(a[i], v)])

MatAdd(a, b) == Mat3([i \in 1..3 |-> [j \in 1..3 |-> Add(a[i][j], b[i][j])]])

VecAdd(u, v) == Vec3([i \in 1..3 |-> Add(u[i], v[i])])

Scale(s, v) == Vec3([i \in 1..3 |-> Mul(s, v[i])])

MatFinite(a) == \A i \in 1..3 : \A j \in 1..3 : IsFinite(a[i][j])

\* indices of a 3-cycle: the two rows (columns) other than i, in cyclic order
Nxt(i) == (i % 3) + 1

Cofactor(a, i, j) ==
    Sub(Mul(a[Nxt(i)][Nxt(j)], a[Nxt(Nxt(i))][Nxt(Nxt(j))]),
        Mul(a[Nxt(i)][Nxt(Nxt(j))], a[Nxt(Nxt(i))][Nxt(j)]))

Det(a) ==
    Add(Add(Mul(a[1][1], Cofactor(a, 1, 1)), Mul(a[1][2], Cofactor(a, 1, 2))),
        Mul(a[1][3], Cofactor(a, 1, 3)))

\* the result of a call: a value, or the exception that ended it
Returns(v) == [raised |-> "none", val |-> v]

Raises(e) == [raised |-> e, val |-> <<>>]

\* scipy.linalg.inv: ValueError for an array holding Inf or NaN (check_finite),
\* LinAlgError for a singular matrix, the inverse otherwise
inv(a) ==
    IF ~MatFinite(a) THEN Raises("ValueError")
    ELSE LET det == Det(a)
         IN  IF det = Zero THEN Raises("LinAlgError")
             ELSE Returns(Mat3([i \in 1..3 |-> [j \in 1..3 |-> Div(Cofactor(a, j, i), det)]]))

(* ------------------------------------------------------------------ *)
(* The functions of elliptic_cylinder.py                                *)
(* ------------------------------------------------------------------ *)

\* m_conv with the sign of mcon[2][2] lost
m_conv_sign_slip(angles) ==
    LET mcon == << << Zero, One, Zero >>,
                   << Cos(angles[1]), Zero, Neg(Sin(angles[1])) >>,
                   << Neg(Sin(angles[1])), Zero, Cos(angles[1]) >> >>
    IN  << mcon, Transpose(mcon) >>

\* m_conv(angles): the change-of-basis matrix and its transpose
m_conv(angles) ==
    LET mcon == << << Zero, One, Zero >>,
                   << Cos(angles[1]), Zero, Neg(Sin(angles[1])) >>,
                   << Neg(Sin(angles[1])), Zero, Neg(Cos(angles[1])) >> >>
    IN  << mcon, Transpose(mcon) >>

\* lmnn_v(dec, inc): direction cosines
lmnn_v(dec, inc) ==
    << Mul(Cos(dec), Cos(inc)), Mul(Sin(dec), Cos(inc)), Sin(inc) >>

\* the body-frame image of intensity * (l, m, n): the body of F_e and JN_e
ToBody(inten, l, m, n, mcon) ==
    Scale(inten,
          Vec3([i \in 1..3 |-> Add(Add(Mul(l, mcon[i][1]), Mul(m, mcon[i][2])),
                                   Mul(n, mcon[i][3]))]))

F_e(intT, lt, mt, nt, mcon) == ToBody(intT, lt, mt, nt, mcon)

JN_e(intensity, ln, mn, nn, mcon) == ToBody(intensity, ln, mn, nn, mcon)

\* N_desmag(axis): the demagnetization factors N2, N3
N_desmag(axis) ==
    << Div(Mul(Mul(Int2V(4), Pi), El(axis, 1)), Add(El(axis, 0), El(axis, 1))),
       Div(Mul(Mul(Int2V(4), Pi), El(axis, 0)), Add(El(axis, 0), El(axis, 1))) >>

\* k_term contracting column r of mcon, not row r, with rows i and j
k_term_by_column(k_int, mcon, i, j, r) ==
    Mul(Mul(El(k_int, r), Dot3(Transpose(mcon)[r + 1], mcon[i + 1])),
        Dot3(Transpose(mcon)[r + 1], mcon[j + 1]))

\* one term of the accumulation in k_matrix: r-th weight, rows i and j
k_term(k_int, mcon, i, j, r) ==
    Mul(Mul(El(k_int, r), Dot3(mcon[r + 1], mcon[i + 1])),
        Dot3(mcon[r + 1], mcon[j + 1]))

\* k_matrix(k_int, mcon): the tensor of the isotropic branch
k_matrix(k_int, mcon) ==
    Returns(Mat3([i \in 1..3 |-> [j \in 1..3 |->
        Add(Add(Add(Zero, k_term(k_int, mcon, i - 1, j - 1, 0)),
                k_term(k_int, mcon, i - 1, j - 1, 1)),
            k_term(k_int, mcon, i - 1, j - 1, 2))]]))

\* k_matrix2(k_int, mcon): its first loop (line 219) reads k_dec and k_inc.
\* They are locals of elliptic; k_matrix2 has no parameter, local or module
\* global of either name, so the read raises NameError on every call.
k_matrix2(k_int, mcon) == Raises("NameError")

\* Python's  x and y  on numbers: x when x is zero, else y
PyAnd(x, y) == IF x = Zero THEN x ELSE y

\* the test of line 52 that selects k_matrix
SelectsIsotropic(k_int) == El(k_int, 0) = PyAnd(El(k_int, 1), El(k_int, 2))

JR_e(km, JN, F) == VecAdd(MatVec(km, F), JN)

\* A_e with the third column scaled by N3
A_e_with_N3(km, N2, N3) ==
    LET kn0 == Vec3([i \in 1..3 |-> Mul(km[i][1], Zero)])
        kn1 == Vec3([i \in 1..3 |-> Mul(km[i][2], N2)])
        kn2 == Vec3([i \in 1..3 |-> Mul(km[i][3], N3)])
        kn  == Transpose(<< kn0, kn1, kn2 >>)
    IN  MatAdd(Identity, kn)

\* the matrix A = I + kn of JRD_e
A_e(km, N2, N3) ==
    LET kn0 == Vec3([i \in 1..3 |-> Mul(km[i][1], Zero)])
        kn1 == Vec3([i \in 1..3 |-> Mul(km[i][2], N2)])
        kn2 == Vec3([i \in 1..3 |-> Mul(km[i][3], N2)])
        kn  == Transpose(<< kn0, kn1, kn2 >>)
    IN  MatAdd(Identity, kn)

\* JRD_e with an inversion that divides by the determinant unchecked
JRD_e_unchecked(km, N2, N3, JR) ==
    LET A == MatAdd(Identity,
                    Transpose(<< Vec3([i \in 1..3 |-> Mul(km[i][1], Zero)]),
                                 Vec3([i \in 1..3 |-> Mul(km[i][2], N2)]),
                                 Vec3([i \in 1..3 |-> Mul(km[i][3], N2)]) >>))
        det == Det(A)
    IN  Returns(MatVec(Mat3([i \in 1..3 |-> [j \in 1..3 |-> Div(Cofactor(A, j, i), det)]]),
                       JR))

\* JRD_e(km, N2, N3, JR): inv(A) . JR, or the exception inv raises
JRD_e(km, N2, N3, JR) ==
    LET Ainv == inv(A_e(km, N2, N3))
    IN  IF Ainv.raised # "none" THEN Ainv ELSE Returns(MatVec(Ainv.val, JR))

\* x_e(xp, yp, zp, center, mcon): the body coordinates x2, x3
x_e(xp, yp, zp, center, mcon) ==
    << Sub(Add(Mul(Sub(xp, El(center, 0)), At(mcon, 1, 0)),
               Mul(Sub(yp, El(center, 1)), At(mcon, 1, 1))),
           Mul(Add(zp, El(center, 2)), At(mcon, 1, 2))),
       Sub(Add(Mul(Sub(xp, El(center, 0)), At(mcon, 2, 0)),
               Mul(Sub(yp, El(center, 1)), At(mcon, 2, 1))),
           Mul(Add(zp, El(center, 2)), At(mcon, 2, 2))) >>

\* r_e(x2, x3) = (x2^2 + x3^2) ** 0.5, kept as the root of its square: the
\* callers read r only as r**2 and r**4
r_e(x2, x3) == [root_of |-> Add(Sq(x2), Sq(x3))]

Pow2(r) == r.root_of

Pow4(r) == Sq(r.root_of)

AxisDiff(axis) == Sub(Sq(El(axis, 0)), Sq(El(axis, 1)))

\* the radicand of delta_e
delta_radicand(axis, r, x2, x3) ==
    Sub(Add(Pow4(r), Sq(AxisDiff(axis))),
        Mul(Mul(Int2V(2), AxisDiff(axis)), Sub(Sq(x2), Sq(x3))))

delta_e(axis, r, x2, x3) == Sqrt(delta_radicand(axis, r, x2, x3))

\* lamb_e taking the other root
lamb_e_minus_delta(axis, r, delta) ==
    Div(Sub(Sub(Sub(Pow2(r), Sq(El(axis, 0))), Sq(El(axis, 1))), delta), Int2V(2))

lamb_e(axis, r, delta) ==
    Div(Add(Sub(Sub(Pow2(r), Sq(El(axis, 0))), Sq(El(axis, 1))), delta), Int2V(2))

dlambx_e(axis, r, x2, x3, lamb, delta) ==
    << Mul(x2, Add(One, Div(Add(Sub(Pow2(r), Sq(El(axis, 0))), Sq(El(axis, 1))), delta))),
       Mul(x3, Add(One, Div(Sub(Add(Pow2(r), Sq(El(axis, 0))), Sq(El(axis, 1))), delta))) >>

f1_e(axis, x2, x3, lamb, JRD) ==
    Mul(Div(Mul(Mul(Mul(Int2V(2), Pi), El(axis, 0)), El(axis, 1)),
            Sqrt(Mul(Add(Sq(El(axis, 0)), lamb), Add(Sq(El(axis, 1)), lamb)))),
        Add(Div(Mul(El(JRD, 1), x2), Add(Sq(El(axis, 0)), lamb)),
            Div(Mul(El(JRD, 2), x3), Add(Sq(El(axis, 1)), lamb))))

\* 4 pi axis[0] axis[1] / (axis[0]^2 - axis[1]^2), the factor of B2_e and B3_e
ShapeFactor(axis) ==
    Div(Mul(Mul(Mul(Int2V(4), Pi), El(axis, 0)), El(axis, 1)), AxisDiff(axis))

\* B2_e reading JRD[2] where the source reads JRD[1]
B2_e_wrong_component(dlambx2, lamb, JRD, f1, axis) ==
    Sub(Mul(dlambx2, f1),
        Mul(Mul(ShapeFactor(axis), El(JRD, 2)),
            Sub(One, Sqrt(Div(Add(Sq(El(axis, 1)), lamb), Add(Sq(El(axis, 0)), lamb))))))

B2_e(dlambx2, lamb, JRD, f1, axis) ==
    Sub(Mul(dlambx2, f1),
        Mul(Mul(ShapeFactor(axis), El(JRD, 1)),
            Sub(One, Sqrt(Div(Add(Sq(El(axis, 1)), lamb), Add(Sq(El(axis, 0)), lamb))))))

B3_e(dlambx3, lamb, JRD, f1, axis) ==
    Sub(Mul(dlambx3, f1),
        Mul(Mul(ShapeFactor(axis), El(JRD, 2)),
            Sub(Sqrt(Div(Add(Sq(El(axis, 0)), lamb), Add(Sq(El(axis, 1)), lamb))), One)))

Bx_c(B2, B3, l2, l3) == Add(Mul(B2, l2), Mul(B3, l3))

Bz_c(B2, B3, n2, n3) == Add(Mul(B2, n2), Mul(B3, n3))

(* ------------------------------------------------------------------ *)
(* The arguments of a call                                              *)
(* ------------------------------------------------------------------ *)

Axes == {ax \in (1..MaxAxis) \X (1..MaxAxis) : ax[1] + ax[2] <= MaxAxis + 1}

AxisV(ax) == << Int2V(ax[1]), Int2V(ax[2]) >>

\* tilt angles from 0 to 90 degrees
Tilts == {Angle("deg", Val(q, TiltDen)) : q \in 0..TiltDen}

Deg0 == Angle("deg", Zero)
Deg90 == Angle("deg", One)

Lattice == {Val(i, GridDen) : i \in 0..MaxGrid}

\* every square root the pipeline takes at body coordinates (u, v) is rational
ExactPoint(axis, u, v) ==
    LET r == r_e(u, v)
        rad == delta_radicand(axis, r, u, v)
        lamb == lamb_e(axis, r, Sqrt(rad))
        p0 == Add(Sq(El(axis, 0)), lamb)
        p1 == Add(Sq(El(axis, 1)), lamb)
    IN  /\ RootExact(rad)
        /\ RootExact(Mul(p0, p1))
        /\ RootExact(Div(p1, p0))
        /\ RootExact(Div(p0, p1))

\* the axes and body coordinates the model draws observation points from
ExactTable ==
    {p \in Axes \X Lattice \X Lattice : ExactPoint(AxisV(p[1]), p[2], p[3])}

\* the observation points for axes ax, by their body coordinates
Points(ax) == {<< p[2], p[3] >> : p \in {q \in ExactTable : q[1] = ax}}

\* the susceptibility that makes 1 + k N2 vanish for these axes
CriticalK(ax) == Neg(Recip(N_desmag(AxisV(ax))[1]))

Intensities(ax) == {Zero, One, CriticalK(ax)}

\* the exact points on the x3 axis of the body, outside it
Above(ax) ==
    {uv \in Points(ax) : uv[1] = Zero /\ Less(Int2V(ax[2]), uv[2])}

\* ... the farthest of them
RefPoints(ax) ==
    {uv \in Above(ax) : \A w \in Above(ax) : Leq(w[2], uv[2])}

\* the arguments of elliptic for axes ax, tilt, the point of body coordinates
\* uv (seen from a body centred below the origin), intensities ki, ambient
\* intensity and inclination, remanent intensity
Args(ax, tilt, uv, ki, intT, incT, intensity) ==
    LET c == Cos(deg2rad(tilt))
        s == Sin(deg2rad(tilt))
    IN  [xp |-> Sub(Mul(uv[1], c), Mul(uv[2], s)), yp |-> Zero, zp |-> Zero,
         xc |-> Zero, yc |-> Zero,
         zc |-> Add(Mul(uv[1], s), Mul(uv[2], c)),
         b |-> Int2V(ax[1]), c |-> Int2V(ax[2]), delta |-> tilt,
         declirem |-> Deg0, inclirem |-> Deg0, intensity |-> intensity,
         decT |-> Deg0, incT |-> incT, intT |-> Int2V(intT),
         k |-> << << ki[1], Deg0, Deg0 >>, << ki[2], Deg0, Deg0 >>,
                  << ki[3], Deg0, Deg0 >> >>]

\* calls that sweep the observation point, with unit susceptibilities, unit
\* ambient intensity and no remanence
PointSweep ==
    UNION {LET pts == Points(ax)
           IN  {Args(ax, tilt, uv, << One, One, One >>, 1, incT, Zero) :
                   tilt \in Tilts, uv \in pts, incT \in {Deg0, Deg90}} :
           ax \in Axes}

\* calls that sweep the susceptibilities and the magnetizations at one point
TensorSweep ==
    UNION {LET ref == RefPoints(ax)
               ks == Intensities(ax)
           IN  {Args(ax, tilt, uv, ki, intT, incT, intensity) :
                   tilt \in Tilts, uv \in ref, ki \in ks \X ks \X ks,
                   intT \in 1..MaxIntT, incT \in {Deg0, Deg90},
                   intensity \in {Zero, One}} :
           ax \in Axes}

Calls == PointSweep \cup TensorSweep

(* ------------------------------------------------------------------ *)
(* One call of elliptic                                                 *)
(* ------------------------------------------------------------------ *)

VARIABLES
    pc,       \* where the call is: "called", "rotated", "tensor", "magnetized",
              \* "mapped", "field", "returned" or "raised"
    arg,      \* the arguments
    frame,    \* the local variables assigned so far
    outcome   \* the returned triple, or the exception

vars == << pc, arg, frame, outcome >>

Init ==
    /\ pc = "called"
    /\ arg \in Calls
    /\ frame = << >>
    /\ outcome = Returns(<< >>)

\* lines 30-46: centre, axes, rotation matrix, direction cosines
Rotate ==
    /\ pc = "called"
    /\ \E delta \in {deg2rad(arg.delta)} :
       \E m \in {m_conv(<< delta >>)} :
       \E decT \in {deg2rad(arg.decT)}, incT \in {deg2rad(arg.incT)} :
          frame' = [center |-> << arg.xc, arg.yc, arg.zc >>,
                    axis |-> << arg.b, arg.c >>,
                    mcon |-> m[1], mconT |-> m[2],
                    rem |-> lmnn_v(deg2rad(arg.declirem), deg2rad(arg.inclirem)),
                    decT |-> decT, incT |-> incT,
                    amb |-> lmnn_v(decT, incT)]
    /\ pc' = "rotated"
    /\ UNCHANGED << arg, outcome >>

k_int_of(k) == << k[1][1], k[2][1], k[3][1] >>

\* lines 48-53: the test of line 52 holds and k_matrix builds the tensor
TensorIsotropic ==
    /\ pc = "rotated"
    /\ SelectsIsotropic(k_int_of(arg.k))
    /\ frame' = frame @@ [k_int |-> k_int_of(arg.k), branch |-> "k_matrix",
                          km |-> k_matrix(k_int_of(arg.k), frame.mcon).val]
    /\ pc' = "tensor"
    /\ UNCHANGED << arg, outcome >>

\* lines 48-55: the test of line 52 fails and k_matrix2 is called
TensorAnisotropic ==
    /\ pc = "rotated"
    /\ ~SelectsIsotropic(k_int_of(arg.k))
    /\ \E res \in {k_matrix2(k_int_of(arg.k), frame.mcon)} :
          IF res.raised # "none"
          THEN /\ pc' = "raised"
               /\ outcome' = res
               /\ frame' = frame @@ [k_int |-> k_int_of(arg.k), branch |-> "k_matrix2"]
          ELSE /\ pc' = "tensor"
               /\ outcome' = outcome
               /\ frame' = frame @@ [k_int |-> k_int_of(arg.k), branch |-> "k_matrix2",
                                     km |-> res.val]
    /\ UNCHANGED arg

\* lines 58-64: the magnetization vectors; JRD_e may raise
Magnetize ==
    /\ pc = "tensor"
    /\ \E F \in {F_e(arg.intT, frame.amb[1], frame.amb[2], frame.amb[3], frame.mcon)} :
       \E JN \in {JN_e(arg.intensity, frame.rem[1], frame.rem[2], frame.rem[3], frame.mcon)} :
       \E N \in {N_desmag(frame.axis)} :
       \E JR \in {JR_e(frame.km, JN, F)} :
       \E res \in {JRD_e(frame.km, N[1], N[2], JR)} :
       \E sofar \in {frame @@ [F |-> F, JN |-> JN, N2 |-> N[1], N3 |-> N[2], JR |-> JR]} :
          IF res.raised # "none"
          THEN /\ pc' = "raised"
               /\ outcome' = res
               /\ frame' = sofar
          ELSE /\ pc' = "magnetized"
               /\ outcome' = outcome
               /\ frame' = sofar @@ [JRD |-> res.val,
                                     JRD_carte |-> MatVec(frame.mconT, res.val)]
    /\ UNCHANGED arg

\* lines 67-77: body coordinates, r, delta, lambda and its derivatives
MapPoint ==
    /\ pc = "magnetized"
    /\ \E x \in {x_e(arg.xp, arg.yp, arg.zp, frame.center, frame.mcon)} :
       \E r \in {r_e(x[1], x[2])} :
       \E delta \in {delta_e(frame.axis, r, x[1], x[2])} :
       \E lamb \in {lamb_e(frame.axis, r, delta)} :
       \E dl \in {dlambx_e(frame.axis, r, x[1], x[2], lamb, delta)} :
          frame' = frame @@ [x2 |-> x[1], x3 |-> x[2], r |-> r, delta |-> delta,
                             lamb |-> lamb, dlambx2 |-> dl[1], dlambx3 |-> dl[2]]
    /\ pc' = "mapped"
    /\ UNCHANGED << arg, outcome >>

\* lines 80-84: the field in body coordinates
Field ==
    /\ pc = "mapped"
    /\ \E f1 \in {f1_e(frame.axis, frame.x2, frame.x3, frame.lamb, frame.JRD)} :
          frame' = frame @@
             [f1 |-> f1,
              B2 |-> B2_e(frame.dlambx2, frame.lamb, frame.JRD, f1, frame.axis),
              B3 |-> B3_e(frame.dlambx3, frame.lamb, frame.JRD, f1, frame.axis)]
    /\ pc' = "field"
    /\ UNCHANGED << arg, outcome >>

\* lines 87-92: the field in geographic coordinates, the anomaly, the return
Return ==
    /\ pc = "field"
    /\ \E Bx \in {Bx_c(frame.B2, frame.B3, At(frame.mcon, 1, 0), At(frame.mcon, 2, 0))} :
       \E Bz \in {Bz_c(frame.B2, frame.B3, At(frame.mcon, 1, 2), At(frame.mcon, 2, 2))} :
       \E Tf \in {Add(Mul(Mul(Bx, Cos(frame.incT)), Cos(frame.decT)),
                      Mul(Bz, Sin(frame.incT)))} :
          outcome' = Returns(<< Bx, Bz, Tf >>)
    /\ pc' = "returned"
    /\ UNCHANGED << arg, frame >>

Next ==
    \/ Rotate
    \/ TensorIsotropic
    \/ TensorAnisotropic
    \/ Magnetize
    \/ MapPoint
    \/ Field
    \/ Return

Spec == Init /\ [][Next]_vars

(* ------------------------------------------------------------------ *)
(* Vocabulary of the properties                                         *)
(* ------------------------------------------------------------------ *)

Has(name) == name \in DOMAIN frame

KInt == k_int_of(arg.k)

PairwiseEqual(k) == k[1] = k[2] /\ k[2] = k[3] /\ k[1] = k[3]

Diag(k) == << << k[1], Zero, Zero >>, << Zero, k[2], Zero >>, << Zero, Zero, k[3] >> >>

\* x2^2/a^2 + x3^2/b^2 for the cross-section with semi-axes axis[0], axis[1]
EllipseForm(axis, x2, x3) ==
    Add(Div(Sq(x2), Sq(El(axis, 0))), Div(Sq(x3), Sq(El(axis, 1))))

InsideOrOn(axis, x2, x3) == Leq(EllipseForm(axis, x2, x3), One)

Outside(axis, x2, x3) == Less(One, EllipseForm(axis, x2, x3))

FiniteTriple(t) == IsFinite(t[1]) /\ IsFinite(t[2]) /\ IsFinite(t[3])

(* ------------------------------------------------------------------ *)
(* Properties                                                           *)
(* ------------------------------------------------------------------ *)

\* C1: k_matrix is selected if and only if the three susceptibility
\* intensities are pairwise equal; whenever two of them differ, k_matrix2 is
\* selected.
C1_SelectionIffPairwiseEqual ==
    Has("branch") => (frame.branch = "k_matrix" <=> PairwiseEqual(KInt))

\* C2: whenever the anisotropic variant is selected, k_matrix2 produces a
\* tensor and the call goes on with it: the branch does not end in an error.
C2_AnisotropicProducesTensor ==
    (Has("branch") /\ frame.branch = "k_matrix2") => (pc # "raised" /\ Has("km"))

\* C3: a call with equal axis lengths ends in an error and returns no value;
\* B2_e and B3_e are never evaluated with the zero divisor (no field value
\* that is Inf or NaN comes out of them).
C3_EqualAxesRejected ==
    arg.b = arg.c =>
        /\ pc # "returned"
        /\ (Has("B2") => IsFinite(frame.B2) /\ IsFinite(frame.B3))

\* C4: at an observation point inside or on the cross-section the call does
\* not return an ordinary finite field value.
C4_InteriorPointFlagged ==
    (pc = "returned" /\ InsideOrOn(frame.axis, frame.x2, frame.x3))
        => ~FiniteTriple(outcome.val)

\* C5: whenever the matrix A = I + kn of JRD_e is singular, the call ends in
\* the inversion's error: no JRD vector exists and nothing is returned.
C5_SingularRaises ==
    (Has("JR") /\ Det(A_e(frame.km, frame.N2, frame.N3)) = Zero)
        => (pc = "raised" /\ outcome.raised = "LinAlgError" /\ ~Has("JRD"))

C5_Witness ==
    /\ Has("JR")
    /\ Det(A_e(frame.km, frame.N2, frame.N3)) = Zero
    /\ arg.b # arg.c
    /\ pc = "raised"

\* C6: for every tilt from 0 to 90 degrees the matrix mcon of m_conv is
\* orthogonal, and mconT is the transpose of mcon.
C6_RotationOrthogonal ==
    Has("mcon") =>
        /\ MatMul(frame.mcon, Transpose(frame.mcon)) = Identity
        /\ frame.mconT = Transpose(frame.mcon)

C6_Witness ==
    /\ Has("mcon")
    /\ arg.delta \notin {Deg0, Deg90}
    /\ At(frame.mcon, 1, 0) # Zero
    /\ At(frame.mcon, 2, 0) # Zero

\* the case of C7: no tilt, no remanence, equal intensities on the isotropic
\* path, vertical ambient field, a point outside the body above its centre
C7_Case ==
    /\ pc = "returned"
    /\ arg.b # arg.c
    /\ arg.delta = Deg0
    /\ arg.intensity = Zero
    /\ frame.branch = "k_matrix"
    /\ PairwiseEqual(KInt)
    /\ arg.incT = Deg90
    /\ arg.xp = arg.xc
    /\ Outside(frame.axis, frame.x2, frame.x3)

\* C7: in that case the Bx returned is zero.
C7_BxZeroAboveCentre == C7_Case => outcome.val[1] = Zero

C7_Witness == C7_Case /\ outcome.val[2] # Zero /\ IsFinite(outcome.val[2])

\* the values of N3 that C8 compares
N3Probes == {Zero, One, frame.N2, frame.N3, Neg(frame.N3)}

\* C8: the matrix of JRD_e is I + K, with column 0 of K zero and columns 1
\* and 2 of K the tensor's columns 1 and 2 times N2; JRD is the same for
\* every value of N3.
C8_OnlyN2Used ==
    Has("JR") =>
        LET A == A_e(frame.km, frame.N2, frame.N3)
        IN  /\ \A i \in 0..2 :
                 /\ At(A, i, 0) = At(Identity, i, 0)
                 /\ At(A, i, 1) = Add(At(Identity, i, 1), Mul(At(frame.km, i, 1), frame.N2))
                 /\ At(A, i, 2) = Add(At(Identity, i, 2), Mul(At(frame.km, i, 2), frame.N2))
            /\ \A n3 \in N3Probes :
                 LET res == JRD_e(frame.km, frame.N2, n3, frame.JR)
                 IN  IF Has("JRD") THEN res = Returns(frame.JRD)
                     ELSE res = outcome

C8_Witness ==
    /\ Has("JRD")
    /\ frame.N2 # frame.N3
    /\ At(frame.km, 2, 2) # Zero
    /\ El(frame.JRD, 2) # Zero

\* the coefficients of lamb^2 + p lamb + q = 0, the characteristic equation
CharP(axis, x2, x3) ==
    Sub(Add(Sq(El(axis, 0)), Sq(El(axis, 1))), Add(Sq(x2), Sq(x3)))

CharQ(axis, x2, x3) ==
    Sub(Sub(Mul(Sq(El(axis, 0)), Sq(El(axis, 1))), Mul(Sq(El(axis, 1)), Sq(x2))),
        Mul(Sq(El(axis, 0)), Sq(x3)))

\* C9: for axis lengths a # b, lamb is a root of the characteristic equation,
\* the larger of the two, and it is >= 0 exactly when the point is on or
\* outside the ellipse.
C9_LambLargestRoot ==
    (Has("lamb") /\ arg.b # arg.c) =>
        LET p == CharP(frame.axis, frame.x2, frame.x3)
            q == CharQ(frame.axis, frame.x2, frame.x3)
            l == frame.lamb
            d0 == Add(Sq(El(frame.axis, 0)), l)
            d1 == Add(Sq(El(frame.axis, 1)), l)
        IN  /\ IsFinite(l)
            /\ Add(Add(Sq(l), Mul(p, l)), q) = Zero
            /\ Leq(Sub(Neg(p), l), l)
            /\ Leq(Zero, l) <=> ~Less(EllipseForm(frame.axis, frame.x2, frame.x3), One)
            /\ (d0 # Zero /\ d1 # Zero) =>
                  Add(Div(Sq(frame.x2), d0), Div(Sq(frame.x3), d1)) = One

C9_Witness ==
    /\ Has("lamb")
    /\ arg.b # arg.c
    /\ frame.x2 # Zero
    /\ frame.x3 # Zero
    /\ Less(Zero, frame.lamb)
    /\ Less(Zero, frame.delta)

\* C10: k_matrix returns diag(k_int[0], k_int[1], k_int[2]) for every tilt
\* and every intensity triple it is called with, equal or not; the tensor is
\* symmetric.
C10_IsotropicTensorDiagonal ==
    (Has("km") /\ frame.branch = "k_matrix") =>
        /\ frame.km = Diag(frame.k_int)
        /\ frame.km = Transpose(frame.km)

C10_Witness ==
    /\ Has("km")
    /\ frame.branch = "k_matrix"
    /\ ~PairwiseEqual(frame.k_int)
    /\ arg.delta \notin {Deg0, Deg90}

====
